---- MODULE Spec2Model ----
(***************************************************************************)
(* JotDown: the Markdown chunker (split_content, simple_split) and the     *)
(* Notion block tokenizer (format_for_notion) of src/src/formatter.rs.     *)
(*                                                                         *)
(* Text is a TLA+ string; positions are 0-based byte offsets as in Rust    *)
(* (the alphabet is ASCII, so bytes and characters coincide).  A backquote *)
(* cannot be written inside a TLA+ string literal, so the model writes the *)
(* backquote character as an apostrophe, which occurs nowhere else.        *)
(***************************************************************************)
EXTENDS Integers, Sequences, FiniteSets, TLC

VARIABLES
    pc,                  \* where the modelled call stands
    \* formatter.rs: split_content and format_for_notion
    text, max_length, chunks, lines, i, blocks, current_code_block,
    \* formatter.rs: get_valid_notion_language
    tag, language, renormalized,
    \* notion.rs: create_page_with_blocks and update_page_with_blocks
    op, page_blocks, requests, stored, chunk_start, result

formatterVars == <<text, max_length, chunks, lines, i, blocks, current_code_block>>

langVars == <<tag, language, renormalized>>

notionVars == <<op, page_blocks, requests, stored, chunk_start, result>>

vars == <<pc, formatterVars, langVars, notionVars>>

(***************************************************************************)
(* Bounds of the model.                                                    *)
(***************************************************************************)
MaxLines == 5
MaxLength == 12

(***************************************************************************)
(* Characters and string helpers (Rust str methods used by the code).      *)
(***************************************************************************)
NL == "\n"
Backtick == "'"
Fence == Backtick \o Backtick \o Backtick

\* &text[from..to]
Slice(s, from, to) == SubSeq(s, from + 1, to)

\* the byte at 0-based offset p ("" past the end)
CharAt(s, p) == IF p < Len(s) THEN SubSeq(s, p + 1, p + 1) ELSE ""

\* char::is_whitespace, as used by trim, trim_end and the regex class \s
IsWhitespace(c) == c \in {" ", "\t", "\n", "\r"}

StartsWith(s, prefix) ==
    Len(s) >= Len(prefix) /\ SubSeq(s, 1, Len(prefix)) = prefix

RECURSIVE TrimEnd(_)
TrimEnd(s) ==
    IF s # "" /\ IsWhitespace(CharAt(s, Len(s) - 1))
    THEN TrimEnd(SubSeq(s, 1, Len(s) - 1))
    ELSE s

RECURSIVE TrimStart(_)
TrimStart(s) ==
    IF s # "" /\ IsWhitespace(CharAt(s, 0))
    THEN TrimStart(SubSeq(s, 2, Len(s)))
    ELSE s

Trim(s) == TrimEnd(TrimStart(s))

\* offset of the first line terminator at or after p, or Len(s) when none
RECURSIVE LineEnd(_, _)
LineEnd(s, p) ==
    IF p >= Len(s) \/ CharAt(s, p) = NL THEN p ELSE LineEnd(s, p + 1)

\* text.split('\n'): always at least one line
RECURSIVE SplitLines(_)
SplitLines(s) ==
    LET e == LineEnd(s, 0) IN
    IF e >= Len(s) THEN <<s>>
    ELSE <<Slice(s, 0, e)>> \o SplitLines(Slice(s, e + 1, Len(s)))

RECURSIVE Concat(_)
Concat(seq) == IF seq = <<>> THEN "" ELSE Head(seq) \o Concat(Tail(seq))

RECURSIVE Join(_)
Join(ls) ==
    IF Len(ls) = 1 THEN ls[1] ELSE ls[1] \o NL \o Join(Tail(ls))

(***************************************************************************)
(* split_content: the heading regex  (?m)^(#{1,3}\s.+)$                    *)
(***************************************************************************)
\* number of '#' from offset p on
RECURSIVE HashRun(_, _)
HashRun(s, p) ==
    IF p < Len(s) /\ CharAt(s, p) = "#" THEN 1 + HashRun(s, p + 1) ELSE 0

\* end offset of the regex match that starts at line start p, or -1.
\* \s matches any whitespace, a line terminator included; '.' matches
\* anything but a line terminator and '+' is greedy up to the line end.
HeaderMatchEnd(s, p) ==
    LET k == HashRun(s, p) IN
    IF /\ k \in 1..3
       /\ p + k + 1 < Len(s)
       /\ IsWhitespace(CharAt(s, p + k))
       /\ CharAt(s, p + k + 1) # NL
    THEN LineEnd(s, p + k + 1)
    ELSE -1

\* header_regex.find_iter(text): start offsets of the non-overlapping
\* matches, leftmost first; p is the line start the search resumes at.
RECURSIVE FindHeaders(_, _)
FindHeaders(s, p) ==
    IF p >= Len(s) THEN <<>>
    ELSE LET e == HeaderMatchEnd(s, p) IN
         IF e >= 0 THEN <<p>> \o FindHeaders(s, e + 1)
         ELSE FindHeaders(s, LineEnd(s, p) + 1)

headers(s) == FindHeaders(s, 0)

(***************************************************************************)
(* simple_split                                                            *)
(***************************************************************************)
\* line.trim().starts_with(fence)
IsFenceMarker(line) == StartsWith(Trim(line), Fence)

\* push current_chunk unless it is empty
PushNonEmpty(cs, chunk) == IF chunk # "" THEN Append(cs, chunk) ELSE cs

SimpleInit ==
    [chunks |-> <<>>, current_chunk |-> "", in_code_block |-> FALSE,
     code_block_content |-> ""]

\* one iteration of the loop over the lines
SimpleLine(st, line, max) ==
    IF IsFenceMarker(line)
    THEN IF ~st.in_code_block
         THEN \* starting a code block
              [st EXCEPT !.in_code_block = TRUE,
                         !.code_block_content = line \o NL]
         ELSE \* ending a code block: add it as a whole
              LET content == st.code_block_content \o line IN
              IF Len(st.current_chunk) + Len(content) > max
              THEN [chunks |-> Append(PushNonEmpty(st.chunks, st.current_chunk),
                                      content),
                    current_chunk |-> "",
                    in_code_block |-> FALSE,
                    code_block_content |-> ""]
              ELSE [chunks |-> st.chunks,
                    current_chunk |-> st.current_chunk \o content,
                    in_code_block |-> FALSE,
                    code_block_content |-> ""]
    ELSE IF st.in_code_block
    THEN [st EXCEPT !.code_block_content = @ \o line \o NL]
    ELSE LET line_with_newline == line \o NL IN
         IF Len(st.current_chunk) + Len(line_with_newline) > max
         THEN [st EXCEPT !.chunks = PushNonEmpty(@, st.current_chunk),
                         !.current_chunk = line_with_newline]
         ELSE [st EXCEPT !.current_chunk = @ \o line_with_newline]

RECURSIVE SimpleLoop(_, _, _)
SimpleLoop(st, ls, max) ==
    IF ls = <<>> THEN st
    ELSE SimpleLoop(SimpleLine(st, Head(ls), max), Tail(ls), max)

\* the code after the loop: the pending code block, then the last chunk
SimpleFinish(st, max) ==
    LET flushed ==
          IF st.code_block_content # ""
          THEN IF Len(st.current_chunk) + Len(st.code_block_content) > max
               THEN [chunks |-> Append(PushNonEmpty(st.chunks, st.current_chunk),
                                       st.code_block_content),
                     current_chunk |-> st.current_chunk]
               ELSE [chunks |-> st.chunks,
                     current_chunk |-> st.current_chunk \o st.code_block_content]
          ELSE [chunks |-> st.chunks, current_chunk |-> st.current_chunk]
    IN PushNonEmpty(flushed.chunks, flushed.current_chunk)

simple_split(s, max) ==
    SimpleFinish(SimpleLoop(SimpleInit, SplitLines(s), max), max)

(***************************************************************************)
(* split_content                                                           *)
(***************************************************************************)
FitsInOneChunkStrict(s, max) == Len(s) < max

\* the identity case: text.len() <= max_length
FitsInOneChunk(s, max) == Len(s) <= max

\* one iteration of the loop over the headers; n is the 0-based index
HeaderStep(st, s, max, n, start) ==
    LET header_content == Slice(s, st.last_pos, start)
        added ==
          IF n > 0
          THEN IF Len(st.current_chunk) + Len(header_content) > max
               THEN [parts |-> Append(st.parts, st.current_chunk),
                     current_chunk |-> header_content]
               ELSE [parts |-> st.parts,
                     current_chunk |-> st.current_chunk \o header_content]
          ELSE [parts |-> st.parts, current_chunk |-> st.current_chunk]
    IN [parts |-> added.parts,
        current_chunk |-> IF added.current_chunk = ""
                          THEN Slice(s, start, Len(s))
                          ELSE added.current_chunk,
        last_pos |-> start]

RECURSIVE HeaderLoop(_, _, _, _, _)
HeaderLoop(st, s, max, hs, n) ==
    IF n >= Len(hs) THEN st
    ELSE HeaderLoop(HeaderStep(st, s, max, n, hs[n + 1]), s, max, hs, n + 1)

\* "Add final chunk"
HeaderFinish(st, s, max) ==
    IF st.last_pos < Len(s)
    THEN LET final_content == Slice(s, st.last_pos, Len(s)) IN
         IF Len(st.current_chunk) + Len(final_content) > max
         THEN st.parts \o <<st.current_chunk, final_content>>
         ELSE Append(st.parts, st.current_chunk \o final_content)
    ELSE PushNonEmpty(st.parts, st.current_chunk)

\* "If any chunk is still too large, split it further"
RECURSIVE PostPass(_, _)
PostPass(parts, max) ==
    IF parts = <<>> THEN <<>>
    ELSE (IF Len(Head(parts)) > max
          THEN simple_split(Head(parts), max)
          ELSE <<Head(parts)>>) \o PostPass(Tail(parts), max)

split_content(s, max) ==
    IF FitsInOneChunk(s, max) THEN <<s>>
    ELSE IF headers(s) = <<>> THEN simple_split(s, max)
    ELSE PostPass(
           HeaderFinish(
             HeaderLoop([parts |-> <<>>, current_chunk |-> "", last_pos |-> 0],
                        s, max, headers(s), 0),
             s, max),
           max)

(***************************************************************************)
(* get_valid_notion_language                                               *)
(***************************************************************************)
UpperLetters == "ABCDEFGHIJKLMNOPQRSTUVWXYZ"
LowerLetters == "abcdefghijklmnopqrstuvwxyz"

\* char::to_lowercase on the ASCII alphabet
ToLowerChar(c) ==
    IF \E k \in 1..26 : SubSeq(UpperLetters, k, k) = c
    THEN LET k == CHOOSE k \in 1..26 : SubSeq(UpperLetters, k, k) = c
         IN SubSeq(LowerLetters, k, k)
    ELSE c

RECURSIVE ToLowercase(_)
ToLowercase(s) ==
    IF s = "" THEN "" ELSE ToLowerChar(CharAt(s, 0)) \o ToLowercase(Tail(s))

valid_languages ==
    {"abap", "agda", "arduino", "assembly", "bash", "basic", "c", "c#", "c++",
     "clojure", "coffeescript", "css", "dart", "diff", "docker", "elixir",
     "elm", "erlang", "f#", "flow", "fortran", "go", "graphql", "groovy",
     "haskell", "html", "java", "javascript", "json", "julia", "kotlin", "latex",
     "less", "lisp", "lua", "makefile", "markdown", "matlab", "mermaid",
     "nix", "objective-c", "ocaml", "pascal", "perl", "php", "python",
     "r", "ruby", "rust", "scala", "scheme", "scss", "shell", "sql",
     "swift", "typescript", "vb.net", "verilog", "vhdl", "xml", "yaml"}

get_valid_notion_language_NoLower(lang) ==
    LET normalized == Trim(lang) IN
    IF normalized \in valid_languages THEN normalized
    ELSE IF normalized = "" THEN "plain text"
    ELSE IF normalized \in {"js", "jsx"} THEN "javascript"
    ELSE IF normalized = "py" THEN "python"
    ELSE IF normalized \in {"ts", "tsx"} THEN "typescript"
    ELSE IF normalized \in {"sh", "zsh"} THEN "shell"
    ELSE IF normalized = "md" THEN "markdown"
    ELSE "plain text"

get_valid_notion_language_BadAlias(lang) ==
    LET normalized == ToLowercase(Trim(lang)) IN
    IF normalized \in valid_languages THEN normalized
    ELSE IF normalized = "" THEN "plain text"
    ELSE IF normalized \in {"js", "jsx"} THEN "javascript"
    ELSE IF normalized = "py" THEN "python3"
    ELSE IF normalized \in {"ts", "tsx"} THEN "typescript"
    ELSE IF normalized \in {"sh", "zsh"} THEN "shell"
    ELSE IF normalized = "md" THEN "markdown"
    ELSE "plain text"

get_valid_notion_language(lang) ==
    LET normalized == ToLowercase(Trim(lang)) IN
    IF normalized \in valid_languages THEN normalized
    ELSE IF normalized = "" THEN "plain text"
    ELSE IF normalized \in {"js", "jsx"} THEN "javascript"
    ELSE IF normalized = "py" THEN "python"
    ELSE IF normalized \in {"ts", "tsx"} THEN "typescript"
    ELSE IF normalized \in {"sh", "zsh"} THEN "shell"
    ELSE IF normalized = "md" THEN "markdown"
    ELSE "plain text"

(***************************************************************************)
(* format_for_notion                                                       *)
(***************************************************************************)
\* json!({"type": "code", "code": {"rich_text": ..., "language": ...}})
CodeBlock(lang, runs) ==
    [type |-> "code", language |-> lang, rich_text |-> runs]

\* json!({"type": t, t: {"rich_text": ...}})
TextBlock(type, runs) == [type |-> type, rich_text |-> runs]

\* current_code_block: None
None == [type |-> "none"]

\* line.strip_prefix(fence) is Some
IsFenceOpen(line) == StartsWith(line, Fence)

IsFenceCloseLoose(line) == StartsWith(Trim(line), Fence)

\* line.trim() == fence
IsFenceClose(line) == Trim(line) = Fence

HeadingLevelLoose(line) ==
    IF HashRun(line, 0) >= 1 /\ CharAt(line, HashRun(line, 0)) = " "
    THEN (IF HashRun(line, 0) > 3 THEN 3 ELSE HashRun(line, 0))
    ELSE 0

\* the chain of starts_with tests for "# ", "## ", "### ": the heading
\* level, or 0 when the line is not a heading
HeadingLevel(line) ==
    IF StartsWith(line, "# ") THEN 1
    ELSE IF StartsWith(line, "## ") THEN 2
    ELSE IF StartsWith(line, "### ") THEN 3
    ELSE 0

IsDigit(c) == c \in {"0", "1", "2", "3", "4", "5", "6", "7", "8", "9"}

RECURSIVE DigitRun(_, _)
DigitRun(s, p) ==
    IF p < Len(s) /\ IsDigit(CharAt(s, p)) THEN 1 + DigitRun(s, p + 1) ELSE 0

NumberedMarkerLenNoSpace(line) ==
    LET d == DigitRun(line, 0) IN
    IF d >= 1 /\ CharAt(line, d) = "." THEN d + 1 ELSE 0

\* length of the match of ^\d+\.\s at the start of the line, or 0
NumberedMarkerLen(line) ==
    LET d == DigitRun(line, 0) IN
    IF d >= 1 /\ CharAt(line, d) = "." /\ IsWhitespace(CharAt(line, d + 1))
    THEN d + 2 ELSE 0

EmptyLineIgnored == <<>>

\* the block pushed for an empty line outside a code block
EmptyLineBlocks == <<TextBlock("paragraph", <<>>)>>

\* the block pushed for a non-empty line outside a code block
LineBlock(line) ==
    IF HeadingLevel(line) = 1
    THEN TextBlock("heading_1", <<Slice(line, 2, Len(line))>>)
    ELSE IF HeadingLevel(line) = 2
    THEN TextBlock("heading_2", <<Slice(line, 3, Len(line))>>)
    ELSE IF HeadingLevel(line) = 3
    THEN TextBlock("heading_3", <<Slice(line, 4, Len(line))>>)
    ELSE IF StartsWith(line, "- ") \/ StartsWith(line, "* ")
    THEN TextBlock("bulleted_list_item", <<Slice(line, 2, Len(line))>>)
    ELSE IF NumberedMarkerLen(line) > 0
    THEN TextBlock("numbered_list_item",
                   <<Slice(line, NumberedMarkerLen(line), Len(line))>>)
    ELSE TextBlock("paragraph", <<line>>)

FormatStepReopen(st, raw) ==
    LET line == TrimEnd(raw) IN
    IF IsFenceOpen(line)
    THEN [st EXCEPT !.current_code_block =
            CodeBlock(get_valid_notion_language(Trim(Slice(line, 3, Len(line)))),
                      <<>>)]
    ELSE IF IsFenceClose(line) /\ st.current_code_block # None
    THEN [blocks |-> Append(st.blocks, st.current_code_block),
          current_code_block |-> None]
    ELSE IF st.current_code_block # None
    THEN [st EXCEPT !.current_code_block.rich_text = Append(@, line \o NL)]
    ELSE IF Trim(line) = ""
    THEN [st EXCEPT !.blocks = @ \o EmptyLineBlocks]
    ELSE [st EXCEPT !.blocks = Append(@, LineBlock(line))]

\* the body of the while loop for one element of lines; st is the pair
\* (blocks, current_code_block)
FormatStep(st, raw) ==
    LET line == TrimEnd(raw) IN
    IF IsFenceOpen(line) /\ st.current_code_block = None
    THEN [st EXCEPT !.current_code_block =
            CodeBlock(get_valid_notion_language(Trim(Slice(line, 3, Len(line)))),
                      <<>>)]
    ELSE IF IsFenceClose(line) /\ st.current_code_block # None
    THEN [blocks |-> Append(st.blocks, st.current_code_block),
          current_code_block |-> None]
    ELSE IF st.current_code_block # None
    THEN [st EXCEPT !.current_code_block.rich_text = Append(@, line \o NL)]
    ELSE IF Trim(line) = ""
    THEN [st EXCEPT !.blocks = @ \o EmptyLineBlocks]
    ELSE [st EXCEPT !.blocks = Append(@, LineBlock(line))]

DropOpenCodeBlock(bs, open) == bs

\* "Close any remaining code block"
FlushOpenCodeBlock(bs, open) == IF open # None THEN Append(bs, open) ELSE bs

RECURSIVE FormatLoop(_, _)
FormatLoop(st, ls) ==
    IF ls = <<>> THEN st ELSE FormatLoop(FormatStep(st, Head(ls)), Tail(ls))

format_for_notion(s) ==
    LET st == FormatLoop([blocks |-> <<>>, current_code_block |-> None],
                         SplitLines(s))
    IN FlushOpenCodeBlock(st.blocks, st.current_code_block)

(***************************************************************************)
(* The chunker as a state machine: an input text made of whole lines and a *)
(* positive max_length are chosen, then split_content is applied.          *)
(***************************************************************************)
\* const MAX_BLOCK_SIZE: usize = 2000
MAX_BLOCK_SIZE == 2000

\* the parts of the state a call does not use
FormatterIdle ==
    /\ text = ""
    /\ max_length = MAX_BLOCK_SIZE
    /\ chunks = <<>>
    /\ lines = <<>>
    /\ i = 0
    /\ blocks = <<>>
    /\ current_code_block = None

LangIdle == tag = "" /\ language = "" /\ renormalized = ""

NotionIdle ==
    /\ op = "none"
    /\ page_blocks = <<>>
    /\ requests = <<>>
    /\ stored = <<>>
    /\ chunk_start = 0
    /\ result = "none"

SplitLineSet == {"", "a", "aaa", "#", "# a", Fence}

TextsOf(lineSet, maxLines) ==
    UNION {{Join(ls) : ls \in [1..n -> lineSet]} : n \in 1..maxLines}

InitSplit ==
    /\ text \in TextsOf(SplitLineSet, MaxLines)
    /\ max_length \in 1..MaxLength
    /\ pc = "start"
    /\ chunks = <<>>
    /\ lines = <<>>
    /\ i = 0
    /\ blocks = <<>>
    /\ current_code_block = None
    /\ LangIdle
    /\ NotionIdle

SplitContent ==
    /\ pc = "start"
    /\ chunks' = split_content(text, max_length)
    /\ pc' = "split"
    /\ UNCHANGED <<text, max_length, lines, i, blocks, current_code_block,
                   langVars, notionVars>>

NextSplit == SplitContent

SpecSplit == InitSplit /\ [][NextSplit]_vars

(***************************************************************************)
(* The tokenizer as a state machine: one step per line, then the flush.    *)
(***************************************************************************)
MaxFormatLines == 3

FormatLineSet ==
    {"", "  ", "a", "a  ", "# a", "## b ", "### c", "#### d", "#a",
     "- x", "* y", "-z", "1. n", "12.\tm", "1.n",
     Fence, Fence \o "py", Fence \o " Rust", "  " \o Fence}

InitFormat ==
    /\ text \in TextsOf(FormatLineSet, MaxFormatLines)
    /\ max_length = MAX_BLOCK_SIZE
    /\ pc = "format"
    /\ chunks = <<>>
    /\ lines = SplitLines(text)
    /\ i = 0
    /\ blocks = <<>>
    /\ current_code_block = None
    /\ LangIdle
    /\ NotionIdle

\* while i < lines.len() { let line = lines[i].trim_end(); i += 1; ... }
FormatLine ==
    /\ pc = "format"
    /\ i < Len(lines)
    /\ LET st == FormatStep([blocks |-> blocks,
                             current_code_block |-> current_code_block],
                            lines[i + 1])
       IN /\ blocks' = st.blocks
          /\ current_code_block' = st.current_code_block
    /\ i' = i + 1
    /\ UNCHANGED <<text, max_length, pc, chunks, lines, langVars, notionVars>>

\* the loop has ended: flush the open code block and return blocks
FormatReturn ==
    /\ pc = "format"
    /\ i >= Len(lines)
    /\ blocks' = FlushOpenCodeBlock(blocks, current_code_block)
    /\ current_code_block' = None
    /\ pc' = "done"
    /\ UNCHANGED <<text, max_length, chunks, lines, i, langVars, notionVars>>

NextFormat == FormatLine \/ FormatReturn

SpecFormat == InitFormat /\ [][NextFormat]_vars

(***************************************************************************)
(* Properties of split_content (checked under SpecSplit).                  *)
(***************************************************************************)
ContainsNL(s) == LineEnd(s, 0) < Len(s)

IsSubstring(sub, s) ==
    \E p \in 0..(Len(s) - Len(sub)) : Slice(s, p, p + Len(sub)) = sub

\* a chunk without the one line terminator that may end it
StripNL(c) ==
    IF c # "" /\ CharAt(c, Len(c) - 1) = NL THEN SubSeq(c, 1, Len(c) - 1) ELSE c

IsOneLine(c) == ~ContainsNL(StripNL(c))

\* one fenced block: an opening marker line, lines that are not markers,
\* and possibly a closing marker line
IsOneFence(c) ==
    LET ls == SplitLines(StripNL(c)) IN
    /\ IsFenceMarker(ls[1])
    /\ \A k \in 2..(Len(ls) - 1) : ~IsFenceMarker(ls[k])

\* the length of the unit a chunk is made of, as the unit occurs in the
\* text: a terminator the text does not have after the unit is not counted
OwnLength(c) == IF IsSubstring(c, text) THEN Len(c) ELSE Len(StripNL(c))

IsOversizedUnit(c) ==
    (IsOneLine(c) \/ IsOneFence(c)) /\ OwnLength(c) > max_length

\* C1: every chunk has length <= max_length, except a chunk made of one
\* line or one fenced block whose own length exceeds max_length.
C1_LengthBound ==
    pc = "split" =>
       \A k \in 1..Len(chunks) :
          Len(chunks[k]) <= max_length \/ IsOversizedUnit(chunks[k])

\* C2: the chunks concatenated in order are exactly the text.
C2_Reconstruction == pc = "split" => Concat(chunks) = text

\* the fenced blocks of a text, by the marker toggle of the line splitter:
\* line k opens a block when it is a marker preceded by an even number of
\* markers; the block runs to the next marker line, or to the end
MarkersBefore(ls, k) == Cardinality({j \in 1..(k - 1) : IsFenceMarker(ls[j])})

OpensFence(ls, k) == IsFenceMarker(ls[k]) /\ MarkersBefore(ls, k) % 2 = 0

FenceLastLine(ls, k) ==
    IF \E m \in (k + 1)..Len(ls) : IsFenceMarker(ls[m])
    THEN CHOOSE m \in (k + 1)..Len(ls) :
            /\ IsFenceMarker(ls[m])
            /\ \A j \in (k + 1)..(m - 1) : ~IsFenceMarker(ls[j])
    ELSE Len(ls)

FencedBlock(ls, k) == Join(SubSeq(ls, k, FenceLastLine(ls, k)))

\* C3: a fenced block shorter than max_length lands whole in one chunk
\* (opening marker, interior and closing marker), also when an interior
\* line looks like a heading.
C3_FenceAtomicity ==
    pc = "split" =>
       LET ls == SplitLines(text) IN
       \A k \in 1..Len(ls) :
          (OpensFence(ls, k) /\ Len(FencedBlock(ls, k)) < max_length) =>
             \E c \in 1..Len(chunks) :
                IsSubstring(FencedBlock(ls, k), chunks[c])

\* C4: a text with no line break and no heading that is longer than
\* max_length is split into more than one chunk, each of length
\* <= max_length, that concatenate to the text.
C4_ForceSplit ==
    (pc = "split" /\ ~ContainsNL(text) /\ headers(text) = <<>>
       /\ Len(text) > max_length) =>
       /\ Len(chunks) > 1
       /\ \A k \in 1..Len(chunks) : Len(chunks[k]) <= max_length
       /\ Concat(chunks) = text

\* C5: a text with length <= max_length is returned as the single chunk,
\* whatever headings or fences it contains.
C5_Identity ==
    (pc = "split" /\ Len(text) <= max_length) => chunks = <<text>>

C5_Witness ==
    /\ pc = "split"
    /\ Len(text) = max_length
    /\ headers(text) # <<>>
    /\ \E k \in 1..Len(SplitLines(text)) : IsFenceMarker(SplitLines(text)[k])
    /\ chunks = <<text>>

(***************************************************************************)
(* Properties of format_for_notion (checked under SpecFormat).  They are   *)
(* stated on the input: "line" is the right-trimmed line the loop works    *)
(* on, and which lines belong to a code block is defined from the text.    *)
(***************************************************************************)
NumLines == Len(lines)

\* the k-th line (1-based), right-trimmed
TLine(k) == TrimEnd(lines[k])

StartsWithFence(l) == StartsWith(l, Fence)

IsExactFence(l) == Trim(l) = Fence

\* InCode(k): a code block is open when line k is read.
\* OpensCode(k): line k starts with a fence while no code block is open.
RECURSIVE InCode(_)
OpensCode(k) == StartsWithFence(TLine(k)) /\ ~InCode(k)

InCode(k) ==
    \E o \in 1..(k - 1) :
       OpensCode(o) /\ \A c \in (o + 1)..(k - 1) : ~IsExactFence(TLine(c))

\* line c closes the code block that line o opens
ClosesCode(o, c) ==
    /\ OpensCode(o)
    /\ c > o
    /\ IsExactFence(TLine(c))
    /\ \A j \in (o + 1)..(c - 1) : ~IsExactFence(TLine(j))

\* the code block opened by line o is still open at the end of the input
Unclosed(o) ==
    OpensCode(o) /\ \A j \in (o + 1)..NumLines : ~IsExactFence(TLine(j))

\* the lines outside code blocks and the opening lines are the units that
\* yield a block; the unit that starts at line k yields the BlockIndex(k)-th
UnitsUpTo(n) == {j \in 1..n : ~InCode(j)}

BlockIndex(k) == Cardinality(UnitsUpTo(k - 1)) + 1

\* the text runs of the lines from..to of a code block
CodeRuns(from, to) == [j \in 1..(to - from + 1) |-> TLine(from + j - 1) \o NL]

LanguageOf(o) ==
    get_valid_notion_language(Trim(Slice(TLine(o), 3, Len(TLine(o)))))

ExpectedCode(o, last) ==
    [type |-> "code", language |-> LanguageOf(o),
     rich_text |-> CodeRuns(o + 1, last)]

\* C6: an opening fence line followed later by a line that is exactly a
\* fence yields one code block: its language is the normalized token of the
\* opening line, its runs are the lines strictly between, each followed by
\* a line terminator, in order.
C6_ClosedCodeBlock ==
    pc = "done" =>
       \A o \in 1..NumLines : \A c \in 1..NumLines :
          ClosesCode(o, c) =>
             /\ BlockIndex(o) <= Len(blocks)
             /\ blocks[BlockIndex(o)] = ExpectedCode(o, c - 1)

C6_Witness ==
    /\ pc = "done"
    /\ \E o \in 1..NumLines : \E c \in 1..NumLines :
          /\ ClosesCode(o, c)
          /\ c > o + 1
          /\ StartsWithFence(TLine(o + 1))
          /\ blocks[BlockIndex(o)].language = "python"
          /\ Len(blocks[BlockIndex(o)].rich_text) = c - o - 1

CodeBlockCount == Cardinality({b \in 1..Len(blocks) : blocks[b].type = "code"})

\* C7: every opened code block is emitted exactly once; one still open at
\* the end of the input is emitted as the last block with every line
\* captured since its opening fence.
C7_UnterminatedFlushed ==
    pc = "done" =>
       /\ CodeBlockCount = Cardinality({o \in 1..NumLines : OpensCode(o)})
       /\ \A o \in 1..NumLines :
             Unclosed(o) =>
                /\ Len(blocks) = BlockIndex(o)
                /\ blocks[Len(blocks)] = ExpectedCode(o, NumLines)

C7_Witness ==
    /\ pc = "done"
    /\ \E o \in 1..(NumLines - 1) : Unclosed(o)
    /\ blocks # <<>>
    /\ blocks[Len(blocks)].type = "code"
    /\ blocks[Len(blocks)].rich_text # <<>>

HeadingTypes == {"heading_1", "heading_2", "heading_3"}

\* C8: outside a code block a line starting with "# ", "## " or "### "
\* yields one heading_1/2/3 block whose single run is the rest of the line;
\* four or more '#', or no space after the '#' run, is not a heading.
C8_Headings ==
    pc = "done" =>
       \A k \in 1..NumLines :
          ~InCode(k) =>
             LET l == TLine(k)
                 n == HashRun(l, 0)
             IN /\ BlockIndex(k) <= Len(blocks)
                /\ StartsWith(l, "# ") =>
                      blocks[BlockIndex(k)] =
                         [type |-> "heading_1", rich_text |-> <<Slice(l, 2, Len(l))>>]
                /\ StartsWith(l, "## ") =>
                      blocks[BlockIndex(k)] =
                         [type |-> "heading_2", rich_text |-> <<Slice(l, 3, Len(l))>>]
                /\ StartsWith(l, "### ") =>
                      blocks[BlockIndex(k)] =
                         [type |-> "heading_3", rich_text |-> <<Slice(l, 4, Len(l))>>]
                /\ (n >= 4 \/ (n >= 1 /\ CharAt(l, n) # " ")) =>
                      blocks[BlockIndex(k)].type \notin HeadingTypes

C8_Witness ==
    /\ pc = "done"
    /\ \E k \in 1..NumLines : \E j \in 1..NumLines :
          /\ ~InCode(k) /\ ~InCode(j)
          /\ StartsWith(TLine(k), "## ")
          /\ blocks[BlockIndex(k)].type = "heading_2"
          /\ HashRun(TLine(j), 0) >= 4
          /\ blocks[BlockIndex(j)].type = "paragraph"

IsHeadingLine(l) ==
    StartsWith(l, "# ") \/ StartsWith(l, "## ") \/ StartsWith(l, "### ")

\* d digits, a period and a whitespace character start the line
HasNumberMarker(l, d) ==
    /\ d >= 1
    /\ \A p \in 0..(d - 1) : IsDigit(CharAt(l, p))
    /\ CharAt(l, d) = "."
    /\ IsWhitespace(CharAt(l, d + 1))

ExpectedItem(l) ==
    IF StartsWith(l, "- ") \/ StartsWith(l, "* ")
    THEN [type |-> "bulleted_list_item", rich_text |-> <<Slice(l, 2, Len(l))>>]
    ELSE IF \E d \in 1..Len(l) : HasNumberMarker(l, d)
    THEN LET d == CHOOSE d \in 1..Len(l) : HasNumberMarker(l, d)
         IN [type |-> "numbered_list_item",
             rich_text |-> <<Slice(l, d + 2, Len(l))>>]
    ELSE [type |-> "paragraph", rich_text |-> <<l>>]

\* C9: outside a code block a non-empty line that is not a heading yields
\* one block by the first matching rule: bulleted_list_item, then
\* numbered_list_item, else a paragraph of the whole right-trimmed line.
\* (A line that opens a code block belongs to that code block.)
C9_ListsAndParagraphs ==
    pc = "done" =>
       \A k \in 1..NumLines :
          (/\ ~InCode(k)
           /\ ~OpensCode(k)
           /\ Trim(TLine(k)) # ""
           /\ ~IsHeadingLine(TLine(k))) =>
             /\ BlockIndex(k) <= Len(blocks)
             /\ blocks[BlockIndex(k)] = ExpectedItem(TLine(k))

C9_Witness ==
    /\ pc = "done"
    /\ \E k \in 1..NumLines : \E j \in 1..NumLines : \E m \in 1..NumLines :
          /\ ~InCode(k) /\ ~InCode(j) /\ ~InCode(m)
          /\ blocks[BlockIndex(k)] =
                [type |-> "numbered_list_item", rich_text |-> <<"m">>]
          /\ blocks[BlockIndex(j)].type = "bulleted_list_item"
          /\ blocks[BlockIndex(m)] = [type |-> "paragraph", rich_text |-> <<"1.n">>]

IsSuffix(suf, s) ==
    Len(suf) <= Len(s) /\ SubSeq(s, Len(s) - Len(suf) + 1, Len(s)) = suf

\* the block a unit yields, as far as its kind and the line it comes from
YieldedBy(b, k) ==
    IF OpensCode(k) THEN b.type = "code"
    ELSE IF Trim(TLine(k)) = "" THEN b = [type |-> "paragraph", rich_text |-> <<>>]
    ELSE /\ b.type # "code"
         /\ Len(b.rich_text) = 1
         /\ b.rich_text[1] # ""
         /\ IsSuffix(b.rich_text[1], TLine(k))

RECURSIVE ToUppercase(_)
ToUppercase(s) ==
    IF s = "" THEN ""
    ELSE LET c == CharAt(s, 0) IN
         (IF \E k \in 1..26 : SubSeq(LowerLetters, k, k) = c
          THEN LET k == CHOOSE k \in 1..26 : SubSeq(LowerLetters, k, k) = c
               IN SubSeq(UpperLetters, k, k)
          ELSE c) \o ToUppercase(Tail(s))

\* the alias table, as pairs <<alias, target>>
Aliases ==
    {<<"js", "javascript">>, <<"jsx", "javascript">>, <<"py", "python">>,
     <<"ts", "typescript">>, <<"tsx", "typescript">>, <<"sh", "shell">>,
     <<"zsh", "shell">>, <<"md", "markdown">>}

\* tags in canonical spelling: the supported languages, the aliases, the
\* fallback value, the empty tag and tags that are neither
TagBases ==
    valid_languages \cup {a[1] : a \in Aliases}
       \cup {"", "plain text", "klingon", "pyt", "c +", "j s"}

\* each of them as written, in upper case, capitalized, and with
\* surrounding whitespace
TagSet ==
    UNION {{b, ToUppercase(b),
            ToUppercase(CharAt(b, 0)) \o Slice(b, 1, Len(b)),
            " " \o b \o "\t", "  " \o ToUppercase(b)} : b \in TagBases}

InitLang ==
    /\ pc = "tag"
    /\ tag \in TagSet
    /\ language = ""
    /\ renormalized = ""
    /\ FormatterIdle
    /\ NotionIdle

Normalize ==
    /\ pc = "tag"
    /\ language' = get_valid_notion_language(tag)
    /\ pc' = "normalized"
    /\ UNCHANGED <<tag, renormalized, formatterVars, notionVars>>

Renormalize ==
    /\ pc = "normalized"
    /\ renormalized' = get_valid_notion_language(language)
    /\ pc' = "renormalized"
    /\ UNCHANGED <<tag, language, formatterVars, notionVars>>

NextLang == Normalize \/ Renormalize

SpecLang == InitLang /\ [][NextLang]_vars

(***************************************************************************)
(* Properties of get_valid_notion_language (checked under SpecLang).       *)
(***************************************************************************)
\* the canonical spelling of a tag: without surrounding whitespace, in
\* lower case
Canonical(t) == ToLowercase(Trim(t))

ExpectedTag(t) ==
    IF Canonical(t) \in valid_languages THEN Canonical(t)
    ELSE IF \E a \in Aliases : a[1] = Canonical(t)
    THEN (CHOOSE a \in Aliases : a[1] = Canonical(t))[2]
    ELSE "plain text"

\* C11: the result is the trimmed, lower-cased tag when that is a supported
\* language, else the alias target, else "plain text"; so it is always a
\* supported language or "plain text", whatever the letter case of the tag.
C11_Normalization ==
    pc \in {"normalized", "renormalized"} =>
       /\ language = ExpectedTag(tag)
       /\ language \in valid_languages \cup {"plain text"}
       /\ language = ExpectedTag(ToUppercase(tag))

C11_Witness ==
    /\ pc = "normalized"
    /\ tag = "  PY"
    /\ language = "python"

\* C12: normalizing a normalized tag changes nothing, the fallback value
\* and the alias targets included.
C12_Idempotent == pc = "renormalized" => renormalized = language

C12_Witness ==
    /\ pc = "renormalized"
    /\ tag \in {a[1] : a \in Aliases}
    /\ language \in {a[2] : a \in Aliases}
    /\ renormalized = language

(***************************************************************************)
(* split_content called with max_length = 0.                               *)
(***************************************************************************)
InitSplitZero ==
    /\ text \in TextsOf(SplitLineSet, MaxLines)
    /\ max_length = 0
    /\ pc = "start"
    /\ chunks = <<>>
    /\ lines = <<>>
    /\ i = 0
    /\ blocks = <<>>
    /\ current_code_block = None
    /\ LangIdle
    /\ NotionIdle

SpecSplitZero == InitSplitZero /\ [][NextSplit]_vars

\* C13: with max_length = 0 the call is rejected before any splitting: no
\* chunk is returned, for the empty text and for every other text.
C13_ZeroRejected == (pc = "split" /\ max_length = 0) => chunks = <<>>

(***************************************************************************)
(* The callers of the chunker and the tokenizer (jot.rs, update_page and   *)
(* create_new_page): every chunk is tokenized and the block lists are      *)
(* concatenated in chunk order.                                            *)
(***************************************************************************)
RECURSIVE all_blocks(_)
all_blocks(content_chunks) ==
    IF content_chunks = <<>> THEN <<>>
    ELSE format_for_notion(Head(content_chunks))
            \o all_blocks(Tail(content_chunks))

\* C15: tokenizing the chunks one by one and concatenating the block lists
\* gives the block list of the whole content.
C15_ChunkingInvisible ==
    pc = "split" => all_blocks(chunks) = format_for_notion(text)

(***************************************************************************)
(* Properties of the heading walk of split_content (under SpecSplit).      *)
(***************************************************************************)
\* the segments of a text: from each heading position to the next one, and
\* from the last heading position to the end
Segments(s) ==
    LET hs == headers(s) IN
    [j \in 1..Len(hs) |->
        Slice(s, hs[j], IF j < Len(hs) THEN hs[j + 1] ELSE Len(s))]

Occurrences(sub, s) ==
    Cardinality({p \in 0..(Len(s) - Len(sub)) : Slice(s, p, p + Len(sub)) = sub})

RECURSIVE OccurrencesInChunks(_, _)
OccurrencesInChunks(sub, cs) ==
    IF cs = <<>> THEN 0
    ELSE Occurrences(sub, Head(cs)) + OccurrencesInChunks(sub, Tail(cs))

\* C16: when the text is longer than max_length and has headings, each
\* segment (those that fit in a chunk) is in exactly one chunk: it occurs in
\* the chunks, and not more often than it occurs in the text.
C16_SegmentsOnce ==
    (pc = "split" /\ Len(text) > max_length /\ headers(text) # <<>>) =>
       \A j \in 1..Len(headers(text)) :
          LET seg == Segments(text)[j] IN
          Len(seg) <= max_length =>
             /\ OccurrencesInChunks(seg, chunks) >= 1
             /\ OccurrencesInChunks(seg, chunks) <= Occurrences(seg, text)

StartsAtHeading(c) == headers(c) # <<>> /\ headers(c)[1] = 0

StartsAtTextStart(c) == SplitLines(c)[1] = SplitLines(text)[1]

\* C17: when the text has headings and every section has length
\* <= max_length, every chunk starts at the start of the text or at a
\* heading line, and every section lies whole in one chunk.
C17_CutsAtHeadings ==
    (/\ pc = "split"
     /\ headers(text) # <<>>
     /\ \A j \in 1..Len(headers(text)) : Len(Segments(text)[j]) <= max_length) =>
       /\ \A c \in 1..Len(chunks) :
             StartsAtHeading(chunks[c]) \/ StartsAtTextStart(chunks[c])
       /\ \A j \in 1..Len(headers(text)) :
             \E c \in 1..Len(chunks) : IsSubstring(Segments(text)[j], chunks[c])

(***************************************************************************)
(* Frame property of format_for_notion (checked under SpecFormat).         *)
(***************************************************************************)
\* C18: while a code block is open, a line that is not the closing fence
\* leaves the emitted blocks unchanged and is appended to the open code
\* block as one text run; the open code block stays the same one.
C18_OpenBlockFrame ==
    [][(/\ pc = "format"
        /\ current_code_block # None
        /\ i < NumLines
        /\ ~IsExactFence(TLine(i + 1))) =>
          /\ blocks' = blocks
          /\ current_code_block' =
                [type |-> "code",
                 language |-> current_code_block.language,
                 rich_text |-> Append(current_code_block.rich_text,
                                      TLine(i + 1) \o NL)]]_vars

C18_Witness ==
    /\ pc = "format"
    /\ i = 3
    /\ blocks = <<>>
    /\ current_code_block # None
    /\ current_code_block.language = "rust"
    /\ current_code_block.rich_text = <<"# a\n", Fence \o "py\n">>

(***************************************************************************)
(* notion.rs: create_page_with_blocks and update_page_with_blocks send the *)
(* blocks to the store in batches.  A block is modelled by its 0-based     *)
(* index in the input list.  The store answers each request with one of    *)
(*   "success"        a success status and a JSON body,                    *)
(*   "success_no_id"  the same, but the body of a page creation has no     *)
(*                    string "id",                                         *)
(*   "rejected"       a non-success status and a JSON body,                *)
(*   "unreadable"     a success status and a body that is not JSON         *)
(*                    (send_request returns Err after the store accepted), *)
(*   "error"          a transport error (send_request returns Err).        *)
(***************************************************************************)
MaxBlocks == 301

\* the Notion API limit the code writes as the literal 100
BATCH == 100

\* send_request(...) is Err: .send().await? or .json().await? failed
IsErr(outcome) == outcome \in {"error", "unreadable"}

\* status.is_success()
IsSuccess(outcome) == outcome \in {"success", "success_no_id"}

\* the store has taken the children of the request
StoreAccepted(outcome) == outcome \in {"success", "success_no_id", "unreadable"}

\* response.get("id").and_then(|v| v.as_str()) is Some
HasPageId(outcome) == outcome = "success"

FirstOutcomes(o) ==
    IF o = "create"
    THEN {"success", "success_no_id", "rejected", "unreadable", "error"}
    ELSE {"success", "rejected", "unreadable", "error"}

AppendOutcomes == {"success", "rejected", "unreadable", "error"}

FirstBatchShort(bs) == IF Len(bs) > BATCH THEN SubSeq(bs, 1, BATCH - 1) ELSE bs

\* if blocks.len() > 100 { &blocks[..100] } else { blocks }
FirstBatch(bs) == IF Len(bs) > BATCH THEN SubSeq(bs, 1, BATCH) ELSE bs

\* (chunk_start + 100).min(blocks.len())
ChunkEnd(start, bs) ==
    IF start + BATCH < Len(bs) THEN start + BATCH ELSE Len(bs)

\* &blocks[chunk_start..chunk_end]
Chunk(start, bs) == SubSeq(bs, start + 1, ChunkEnd(start, bs))

InitNotion ==
    /\ pc = "call"
    /\ op \in {"create", "update"}
    /\ \E n \in 0..MaxBlocks : page_blocks = [k \in 1..n |-> k - 1]
    /\ requests = <<>>
    /\ stored = <<>>
    /\ chunk_start = 0
    /\ result = "none"
    /\ FormatterIdle
    /\ LangIdle

\* the first request: the page creation (POST) or the first PATCH
FirstRequest ==
    /\ pc = "call"
    /\ \E o \in FirstOutcomes(op) :
          /\ requests' = Append(requests,
                                [children |-> FirstBatch(page_blocks),
                                 outcome |-> o])
          /\ stored' = IF StoreAccepted(o)
                       THEN stored \o FirstBatch(page_blocks) ELSE stored
          /\ IF IsErr(o)
             THEN /\ pc' = "returned"
                  /\ result' = "err"
                  /\ UNCHANGED chunk_start
             ELSE IF /\ Len(page_blocks) > BATCH
                     /\ IsSuccess(o)
                     /\ (op = "create" => HasPageId(o))
             THEN /\ pc' = "append"
                  /\ chunk_start' = BATCH
                  /\ UNCHANGED result
             ELSE /\ pc' = "returned"
                  /\ result' = "ok"
                  /\ UNCHANGED chunk_start
    /\ UNCHANGED <<op, page_blocks, formatterVars, langVars>>

\* one iteration of  for chunk_start in (100..blocks.len()).step_by(100):
\* let _ = self.append_blocks(page_id, chunk).await?;
AppendRequest ==
    /\ pc = "append"
    /\ chunk_start < Len(page_blocks)
    /\ \E o \in AppendOutcomes :
          /\ requests' = Append(requests,
                                [children |-> Chunk(chunk_start, page_blocks),
                                 outcome |-> o])
          /\ stored' = IF StoreAccepted(o)
                       THEN stored \o Chunk(chunk_start, page_blocks)
                       ELSE stored
          /\ IF IsErr(o)
             THEN /\ pc' = "returned"
                  /\ result' = "err"
                  /\ UNCHANGED chunk_start
             ELSE /\ chunk_start' = chunk_start + BATCH
                  /\ UNCHANGED <<pc, result>>
    /\ UNCHANGED <<op, page_blocks, formatterVars, langVars>>

\* the loop is over: Ok((status, response))
ReturnOk ==
    /\ pc = "append"
    /\ chunk_start >= Len(page_blocks)
    /\ pc' = "returned"
    /\ result' = "ok"
    /\ UNCHANGED <<op, page_blocks, requests, stored, chunk_start,
                   formatterVars, langVars>>

NextNotion == FirstRequest \/ AppendRequest \/ ReturnOk

SpecNotion == InitNotion /\ [][NextNotion]_vars

(***************************************************************************)
(* Properties of the batching (checked under SpecNotion).                  *)
(***************************************************************************)
RECURSIVE ChildrenOf(_)
ChildrenOf(reqs) ==
    IF reqs = <<>> THEN <<>> ELSE Head(reqs).children \o ChildrenOf(Tail(reqs))

Min(a, b) == IF a < b THEN a ELSE b

\* every request was answered with a success status and a JSON body that,
\* for the page creation, carries the id of the new page
AllSucceeded == \A k \in 1..Len(requests) : requests[k].outcome = "success"

\* C14: when every request succeeds, the k-th request carries the k-th run
\* of up to 100 blocks, so the children of all requests in send order are
\* the input block list, each block in exactly one request.
C14_BatchesInOrder ==
    (pc = "returned" /\ AllSucceeded) =>
       /\ result = "ok"
       /\ \A k \in 1..Len(requests) :
             /\ Len(requests[k].children) <= BATCH
             /\ requests[k].children =
                   SubSeq(page_blocks, BATCH * (k - 1) + 1,
                          Min(BATCH * k, Len(page_blocks)))
       /\ ChildrenOf(requests) = page_blocks

C14_Witness ==
    /\ pc = "returned"
    /\ AllSucceeded
    /\ Len(page_blocks) = 250
    /\ Len(requests) = 3
    /\ Len(requests[3].children) = 50

IsPrefix(p, q) == Len(p) <= Len(q) /\ SubSeq(q, 1, Len(p)) = p

\* C19: no request is sent after one the store did not accept (transport
\* error or non-success status), so the stored blocks are always a prefix of
\* the input block list.
C19_StopAtFailure ==
    /\ \A k \in 1..(Len(requests) - 1) :
          requests[k].outcome \notin {"rejected", "error"}
    /\ IsPrefix(stored, page_blocks)

====
